---- MODULE Spec2Model ----
(***************************************************************************)
(* Tenant isolation recipe of examples/extending_query/filter_per_tenant.py *)
(*                                                                         *)
(* State: the process-wide Context slot, the rows stored through the       *)
(* session, the engine's compiled-statement cache, and the outcome of the  *)
(* most recent ORM execution.  The do_orm_execute listener                 *)
(* _add_filtering_criteria is the operator AddFilteringCriteria; the ORM   *)
(* around it (row selection under with_loader_criteria, propagation of the *)
(* option to relationship loads) is modelled by what the listener's calls  *)
(* ask of it.                                                              *)
(***************************************************************************)
EXTENDS Integers, Sequences, FiniteSets, TLC

VARIABLES
    current_account,  \* Context.current_account
    lastSet,          \* history: argument of the most recent set_current_account
    users,            \* user table: users[i] is the account_id of user i
    addresses,        \* address table: set of [user_id, account_id] rows
    cache,            \* compiled relationship-load statement: bound tenant id kept with it
    last,             \* outcome of the most recent top-level ORM execution
    stack,            \* interception frames while tenant resolution issues a query
    working,          \* units of work that have set their tenant and not finished
    unitAcc,          \* account each unit of work set
    clean,            \* history: the unit has not overlapped another unit
    qlog              \* history: the most recent query run by a unit of work

vars == <<current_account, lastSet, users, addresses, cache, last,
          stack, working, unitAcc, clean, qlog>>

----------------------------------------------------------------------------
(* Bounds *)
MaxUsers == 2
MaxAddresses == 2
MaxDepth == 3
MaxUnits == 2

----------------------------------------------------------------------------
(* Values *)
None == "None"

\* ids of the two Account rows the script inserts
AccountIds == {"acc1", "acc2"}

\* Account objects a caller can hand to set_current_account: the two flushed
\* rows and a transient Account() whose primary key was never assigned
TransientAccount == "transient"
AccountObjs == AccountIds \cup {TransientAccount}

\* account.id
IdOf(account) == IF account \in AccountIds THEN account ELSE None

\* Account.__tablename__
AccountTableName == "account"

\* a FROM element: a Table, or another selectable (alias, subquery) of it
FromTable(n) == [is_table |-> TRUE, name |-> n]
FromAlias(n) == [is_table |-> FALSE, name |-> n]

\* execution_options is a dict; .get(key, default)
DictGet(d, k, default) ==
    IF \E kv \in d : kv[1] = k THEN (CHOOSE kv \in d : kv[1] = k)[2] ELSE default

NoOptions == {}
IncludeAll(v) == {<<"include_all_accounts", v>>}

\* an ORMExecuteState: the statement, its loader options and execution options
Stmt(sel, froms, eager, opts) ==
    [is_select |-> sel, froms |-> froms, selectinload |-> eager,
     execution_options |-> opts, is_relationship_load |-> FALSE,
     is_column_load |-> FALSE, criteria |-> None]

\* the statements a caller issues through the session
Statements ==
    {Stmt(TRUE, <<FromTable("user")>>, e, o) :
        e \in BOOLEAN, o \in {NoOptions, IncludeAll(TRUE)}}
    \cup {Stmt(TRUE, <<FromTable("user")>>, FALSE, IncludeAll(FALSE))}
    \cup {Stmt(TRUE, <<FromTable("address")>>, FALSE, o) :
        o \in {NoOptions, IncludeAll(TRUE)}}
    \cup {Stmt(TRUE, <<FromTable("account")>>, FALSE, o) :
        o \in {NoOptions, IncludeAll(TRUE)}}
    \cup {Stmt(TRUE, <<FromAlias("account")>>, FALSE, NoOptions),
          Stmt(TRUE, <<FromAlias("user")>>, FALSE, NoOptions),
          Stmt(TRUE, <<FromTable("account"), FromTable("user")>>, FALSE, NoOptions),
          Stmt(FALSE, <<FromTable("user")>>, FALSE, NoOptions),
          Stmt(FALSE, <<FromTable("account")>>, FALSE, NoOptions)}

----------------------------------------------------------------------------
(* Context *)

\* context.get_current_account()
get_current_account(slot) == slot

\* variant: the single-table test forgotten, any statement whose first FROM is
\* the account table is exempted
ShouldFilter_AnyAccountFrom(es) ==
    /\ ~es.is_relationship_load
    /\ ~es.is_column_load
    /\ ~DictGet(es.execution_options, "include_all_accounts", FALSE)
    /\ ~(/\ es.is_select
         /\ es.froms[1].is_table
         /\ es.froms[1].name = AccountTableName)

\* variant: the include_all_accounts option is not consulted
ShouldFilter_NoBypass(es) ==
    /\ ~es.is_relationship_load
    /\ ~es.is_column_load
    /\ ~(/\ es.is_select
         /\ Len(es.froms) = 1
         /\ es.froms[1].is_table
         /\ es.froms[1].name = AccountTableName)

\* variant: selects on the account table are not exempted
ShouldFilter_NoAccountExemption(es) ==
    /\ ~es.is_relationship_load
    /\ ~es.is_column_load
    /\ ~DictGet(es.execution_options, "include_all_accounts", FALSE)

\* the conditions under which the listener augments the statement
ShouldFilter(es) ==
    /\ ~es.is_relationship_load
    /\ ~es.is_column_load
    /\ ~DictGet(es.execution_options, "include_all_accounts", FALSE)
    /\ ~(/\ es.is_select
         /\ Len(es.froms) = 1
         /\ es.froms[1].is_table
         /\ es.froms[1].name = AccountTableName)

\* variant: the test of current_account_id inverted, so that the criteria is
\* attached only when there is no id
AddFilteringCriteria_NoAttach(es, slot) ==
    IF ~ShouldFilter(es)
    THEN [statement |-> es, raised |-> FALSE, account |-> "unread"]
    ELSE LET account == get_current_account(slot) IN
         IF account = None
         THEN [statement |-> es, raised |-> TRUE, account |-> account]
         ELSE LET current_account_id == IdOf(account) IN
              IF current_account_id = None
              THEN [statement |-> [es EXCEPT !.criteria = current_account_id],
                    raised |-> FALSE, account |-> account]
              ELSE [statement |-> es, raised |-> FALSE, account |-> account]

\* _add_filtering_criteria: the statement it leaves in execute_state, whether
\* it raised, and what it read from the context holder ("unread" if nothing)
AddFilteringCriteria(es, slot) ==
    IF ~ShouldFilter(es)
    THEN [statement |-> es, raised |-> FALSE, account |-> "unread"]
    ELSE LET account == get_current_account(slot) IN
         IF account = None
         THEN \* account.id on None: AttributeError
              [statement |-> es, raised |-> TRUE, account |-> account]
         ELSE LET current_account_id == IdOf(account) IN
              IF current_account_id # None
              THEN [statement |-> [es EXCEPT !.criteria = current_account_id],
                    raised |-> FALSE, account |-> account]
              ELSE [statement |-> es, raised |-> FALSE, account |-> account]

----------------------------------------------------------------------------
(* The ORM around the listener *)

\* MAKE_TESTS_PASS = False; kwargs = dict() unless it is set, and then
\* query_cache_size=0
MAKE_TESTS_PASS == FALSE
QueryCacheEnabled == ~MAKE_TESTS_PASS

\* with_loader_criteria(AccountBoundMixin, lambda cls: cls.account_id == id):
\* a row of a tenant-bound entity is selected when its account_id equals the
\* bound id; without the option every row is selected
Visible(account_id, bound) == bound = None \/ account_id = bound

Tables(st) == {st.froms[i].name : i \in DOMAIN st.froms}

\* rows a statement selects; include_aliases=True makes the criteria apply to
\* aliases of User and Address as well, and Account is not AccountBoundMixin
Execute(st, bound) ==
    [user    |-> IF "user" \in Tables(st)
                 THEN {u \in DOMAIN users : Visible(users[u], bound)} ELSE {},
     address |-> IF "address" \in Tables(st)
                 THEN {a \in addresses : Visible(a.account_id, bound)} ELSE {},
     account |-> IF "account" \in Tables(st) THEN AccountIds ELSE {}]

\* the statement a loader of User.addresses emits for the objects of a parent
\* query: the parent's options (the loader criteria among them) travel with it
RelationshipLoadStmt(parent) ==
    [parent EXCEPT !.is_select = TRUE, !.froms = <<FromTable("address")>>,
                   !.selectinload = FALSE, !.is_relationship_load = TRUE]

\* the statement that loads a deferred or expired column of a returned User
ColumnLoadStmt(parent) ==
    [parent EXCEPT !.is_select = TRUE, !.froms = <<FromTable("user")>>,
                   !.selectinload = FALSE, !.is_column_load = TRUE]

\* The selectinload statement is compiled once and kept in the engine's query
\* cache together with the value its loader criteria was bound to; with the
\* cache enabled a later execution reuses that value.  The script's assertions
\* pass only with query_cache_size=0.
CachedBound(c, criteria) ==
    IF criteria = None THEN None
    ELSE IF QueryCacheEnabled /\ c # None THEN c ELSE criteria

CacheAfter(c, criteria) ==
    IF criteria # None /\ QueryCacheEnabled /\ c = None THEN criteria ELSE c

\* u.addresses as loaded under a bound tenant id
Collection(u, bound) ==
    {a \in addresses : a.user_id = u /\ Visible(a.account_id, bound)}

Unloaded == [loaded |-> FALSE, kind |-> "none", bound |-> None, rows |-> {}]
NoSub == [kind |-> "none", user |-> 0, changed |-> FALSE, account |-> "unread",
          raised |-> FALSE]
NoRows == [user |-> {}, address |-> {}, account |-> {}]
NoStatement == Stmt(FALSE, <<>>, FALSE, NoOptions)
NoQuery == [executed |-> FALSE, active |-> None, orig |-> NoStatement,
            statement |-> NoStatement, raised |-> FALSE, account |-> "unread", rows |-> NoRows,
            coll |-> [u \in {} |-> Unloaded], sub |-> NoSub]

\* no unit of work has queried yet
NoUnitQuery == [executed |-> FALSE, unit |-> 0, tenant |-> None, criteria |-> None,
                clean |-> TRUE, rows |-> {}, leaked |-> FALSE]

\* what the listener did to a load the ORM emitted on behalf of a parent query
SubRecord(kind, u, st, r) ==
    [kind |-> kind, user |-> u, changed |-> r.statement # st,
     account |-> r.account, raised |-> r.raised]

----------------------------------------------------------------------------
(* Initial state: Context() constructed, tables created, acc1 and acc2 flushed *)
Init ==
    /\ current_account = None
    /\ lastSet = None
    /\ users = <<>>
    /\ addresses = {}
    /\ cache = None
    /\ last = NoQuery
    /\ stack = <<>>
    /\ working = {}
    /\ unitAcc = [u \in {} |-> None]
    /\ clean = [u \in {} |-> TRUE]
    /\ qlog = NoUnitQuery

ctxVars == <<current_account, lastSet>>
dbVars == <<users, addresses>>
ormVars == <<cache, last>>
unitVars == <<working, unitAcc, clean, qlog>>

----------------------------------------------------------------------------
(* Operations *)

\* variant: the slot keeps the first account it was given
set_current_account_KeepFirst(account) ==
    /\ current_account' = IF current_account = None THEN account ELSE current_account
    /\ lastSet' = account

\* context.set_current_account(account)
set_current_account(account) ==
    /\ current_account' = account
    /\ lastSet' = account

SetCurrentAccount(account) ==
    /\ set_current_account(account)
    /\ UNCHANGED <<dbVars, ormVars, stack, unitVars>>

\* sess.add(User(account_id=acc)), committed before the first query runs
AddUser(acc) ==
    /\ ~last.executed
    /\ Len(users) < MaxUsers
    /\ users' = Append(users, acc)
    /\ UNCHANGED <<ctxVars, addresses, ormVars, stack, unitVars>>

\* sess.add(Address(account_id=acc)) in the addresses of user u; the row's
\* account_id is free of its user's
AddAddress(u, acc) ==
    /\ ~last.executed
    /\ u \in DOMAIN users
    /\ Cardinality(addresses) < MaxAddresses
    /\ [user_id |-> u, account_id |-> acc] \notin addresses
    /\ addresses' = addresses \cup {[user_id |-> u, account_id |-> acc]}
    /\ UNCHANGED <<ctxVars, users, ormVars, stack, unitVars>>

\* sess.execute(st) / iterating sess.query(...): do_orm_execute runs the
\* listener, the statement it leaves is executed, and a selectinload option
\* loads the addresses of the returned users in one further statement, for
\* which the listener runs again
Query(st) ==
    LET r == AddFilteringCriteria(st, current_account) IN
    IF r.raised
    THEN /\ last' = [NoQuery EXCEPT !.executed = TRUE, !.orig = st,
                                   !.active = current_account,
                                   !.statement = r.statement, !.raised = TRUE,
                                   !.account = r.account]
         /\ UNCHANGED <<ctxVars, dbVars, cache, stack, unitVars>>
    ELSE LET rows == Execute(r.statement, r.statement.criteria)
             eager == r.statement.selectinload /\ rows.user # {}
             relst == RelationshipLoadStmt(r.statement)
             rel == AddFilteringCriteria(relst, current_account)
             bound == CachedBound(cache, rel.statement.criteria)
         IN /\ last' = [executed |-> TRUE, active |-> current_account,
                        orig |-> st, statement |-> r.statement,
                        raised |-> eager /\ rel.raised, account |-> r.account,
                        rows |-> rows,
                        coll |-> [u \in rows.user |->
                                    IF eager /\ ~rel.raised
                                    THEN [loaded |-> TRUE, kind |-> "selectin",
                                          bound |-> bound,
                                          rows |-> Collection(u, bound)]
                                    ELSE Unloaded],
                        sub |-> IF eager THEN SubRecord("selectin", 0, relst, rel)
                                ELSE NoSub]
            /\ cache' = IF eager /\ ~rel.raised
                        THEN CacheAfter(cache, rel.statement.criteria) ELSE cache
            /\ UNCHANGED <<ctxVars, dbVars, stack, unitVars>>

\* first access of u.addresses on a User returned without selectinload: the
\* lazy loader emits the relationship load with the options of the parent query
LazyLoad(u) ==
    /\ last.executed /\ ~last.raised
    /\ u \in DOMAIN last.coll
    /\ ~last.coll[u].loaded
    /\ LET relst == RelationshipLoadStmt(last.statement)
           rel == AddFilteringCriteria(relst, current_account)
           bound == rel.statement.criteria
       IN last' = [last EXCEPT
                     !.coll[u] = IF rel.raised THEN @
                                 ELSE [loaded |-> TRUE, kind |-> "lazy",
                                       bound |-> bound,
                                       rows |-> Collection(u, bound)],
                     !.sub = SubRecord("lazy", u, relst, rel)]
    /\ UNCHANGED <<ctxVars, dbVars, cache, stack, unitVars>>

\* access of a deferred (or expired) column of a returned User
ColumnLoad(u) ==
    /\ last.executed /\ ~last.raised
    /\ u \in last.rows.user
    /\ LET colst == ColumnLoadStmt(last.statement)
           col == AddFilteringCriteria(colst, current_account)
       IN last' = [last EXCEPT !.sub = SubRecord("column", u, colst, col)]
    /\ UNCHANGED <<ctxVars, dbVars, cache, stack, unitVars>>

\* Select statements on the user table: the ones that return User objects
LoadStatements ==
    {st \in Statements : st.is_select /\ st.froms = <<FromTable("user")>>}

\* top-level executions on one session
Next ==
    \/ \E account \in AccountObjs : SetCurrentAccount(account)
    \/ \E acc \in AccountIds : AddUser(acc)
    \/ \E u \in 1..MaxUsers, acc \in AccountIds : AddAddress(u, acc)
    \/ \E st \in Statements : Query(st)

Spec == Init /\ [][Next]_vars

\* queries for User objects and the loads their results trigger
NextLoads ==
    \/ \E account \in AccountObjs : SetCurrentAccount(account)
    \/ \E acc \in AccountIds : AddUser(acc)
    \/ \E u \in 1..MaxUsers, acc \in AccountIds : AddAddress(u, acc)
    \/ \E st \in LoadStatements : Query(st)
    \/ \E u \in 1..MaxUsers : LazyLoad(u)
    \/ \E u \in 1..MaxUsers : ColumnLoad(u)

SpecLoads == Init /\ [][NextLoads]_vars

----------------------------------------------------------------------------
(* Tenant resolution that itself queries the account table *)

\* the statement such a resolution issues: a single-table select on account
AccountSelect == Stmt(TRUE, <<FromTable(AccountTableName)>>, FALSE, NoOptions)

Frame(st, pc) == [statement |-> st, pc |-> pc]
Top == stack[Len(stack)]
SetTop(f) == [stack EXCEPT ![Len(stack)] = f]

\* the session hands a statement to do_orm_execute
Intercept(st) ==
    /\ stack = <<>>
    /\ stack' = <<Frame(st, "guard")>>
    /\ UNCHANGED <<ctxVars, dbVars, ormVars, unitVars>>

\* the listener evaluates its condition
Guard ==
    /\ stack # <<>>
    /\ Top.pc = "guard"
    /\ stack' = SetTop(Frame(Top.statement,
                             IF ShouldFilter(Top.statement) THEN "resolve" ELSE "done"))
    /\ UNCHANGED <<ctxVars, dbVars, ormVars, unitVars>>

\* getting the account makes a request through the same session, which runs
\* the listener for that request before this one continues
Resolve ==
    /\ stack # <<>>
    /\ Top.pc = "resolve"
    /\ Len(stack) < MaxDepth
    /\ stack' = Append(SetTop(Frame(Top.statement, "attach")),
                       Frame(AccountSelect, "guard"))
    /\ UNCHANGED <<ctxVars, dbVars, ormVars, unitVars>>

\* with the account resolved the listener attaches the criteria
Attach ==
    /\ stack # <<>>
    /\ Top.pc = "attach"
    /\ stack' = SetTop(Frame(AddFilteringCriteria(Top.statement, current_account).statement,
                             "done"))
    /\ UNCHANGED <<ctxVars, dbVars, ormVars, unitVars>>

\* the listener returns to the session
Return ==
    /\ stack # <<>>
    /\ Top.pc = "done"
    /\ stack' = SubSeq(stack, 1, Len(stack) - 1)
    /\ UNCHANGED <<ctxVars, dbVars, ormVars, unitVars>>

NextResolve ==
    \/ \E account \in AccountObjs : stack = <<>> /\ SetCurrentAccount(account)
    \/ \E st \in Statements : Intercept(st)
    \/ Guard
    \/ Resolve
    \/ Attach
    \/ Return

SpecResolve == Init /\ [][NextResolve]_vars

----------------------------------------------------------------------------
(* Units of work sharing the one Context *)

Units == 1..MaxUnits

UnitStatement == Stmt(TRUE, <<FromTable("user")>>, FALSE, NoOptions)

Restrict(f, S) == [x \in S |-> f[x]]

\* a unit of work starts by setting its tenant
UnitBegin(u, acc) ==
    /\ u \notin working
    /\ set_current_account(acc)
    /\ working' = working \cup {u}
    /\ unitAcc' = [w \in working' |-> IF w = u THEN acc ELSE unitAcc[w]]
    /\ clean' = [w \in working' |-> working = {}]
    /\ UNCHANGED <<dbVars, ormVars, stack, qlog>>

\* a unit of work queries for User objects
UnitQuery(u) ==
    /\ u \in working
    /\ LET r == AddFilteringCriteria(UnitStatement, current_account)
           rows == Execute(r.statement, r.statement.criteria).user
       IN qlog' = [executed |-> TRUE, unit |-> u, tenant |-> IdOf(unitAcc[u]),
                   criteria |-> r.statement.criteria, clean |-> clean[u],
                   rows |-> rows,
                   leaked |-> \/ qlog.leaked
                              \/ /\ rows # {}
                                 /\ \A x \in rows : users[x] # IdOf(unitAcc[u])]
    /\ UNCHANGED <<ctxVars, dbVars, ormVars, stack, working, unitAcc, clean>>

\* a unit of work finishes
UnitEnd(u) ==
    /\ u \in working
    /\ working' = working \ {u}
    /\ unitAcc' = Restrict(unitAcc, working')
    /\ clean' = Restrict(clean, working')
    /\ UNCHANGED <<ctxVars, dbVars, ormVars, stack, qlog>>

NextUnits ==
    \/ \E acc \in AccountIds : working = {} /\ ~qlog.executed /\ AddUser(acc)
    \/ \E u \in Units, acc \in AccountIds : UnitBegin(u, acc)
    \/ \E u \in Units : UnitQuery(u)
    \/ \E u \in Units : UnitEnd(u)

SpecUnits == Init /\ [][NextUnits]_vars

----------------------------------------------------------------------------
(* Properties *)

\* the statement carries include_all_accounts with a true value
BypassRequested(st) ==
    \E kv \in st.execution_options : kv[1] = "include_all_accounts" /\ kv[2] = TRUE

\* a Select whose FROM list is exactly the account Table
SingleAccountTableSelect(st) ==
    st.is_select /\ st.froms = <<FromTable("account")>>

\* the most recent top-level execution ran a statement the listener must filter
FilteredCase ==
    /\ last.executed
    /\ ~BypassRequested(last.orig)
    /\ ~SingleAccountTableSelect(last.orig)

\* every tenant-bound row in a result belongs to tenant t
OnlyTenant(rows, t) ==
    /\ \A u \in rows.user : users[u] = t
    /\ \A a \in rows.address : a.account_id = t

\* every stored row of the statement's tables, tenant-bound or not
AllRows(st) ==
    [user    |-> IF "user" \in Tables(st) THEN DOMAIN users ELSE {},
     address |-> IF "address" \in Tables(st) THEN addresses ELSE {},
     account |-> IF "account" \in Tables(st) THEN AccountIds ELSE {}]

\* C1: a top-level query intercepted while tenant t is the current account,
\* without the bypass flag and not a single-table select on account, completes
\* and returns only User and Address rows whose account_id is t.id, whatever
\* accounts the stored rows belong to.
C1_OnlyCurrentTenantRows ==
    (FilteredCase /\ last.active \in AccountIds)
        => (~last.raised /\ OnlyTenant(last.rows, IdOf(last.active)))

\* a join of account and user ran under acc1 over users of both accounts and
\* returned some of them
C1_Witness ==
    /\ FilteredCase
    /\ last.active = "acc1"
    /\ Len(last.orig.froms) = 2
    /\ last.rows.user # {}
    /\ \E u \in DOMAIN users : users[u] = "acc2"

\* C2: when a filtered query for User objects runs under tenant t right after a
\* query that ran under another tenant on the same session, every User it
\* returns and every Address in each returned User's addresses has account_id
\* t.id.
C2_NoResidualLeakage ==
    [][(/\ last.executed /\ ~last.raised /\ last.active \in AccountIds
        /\ last'.executed /\ last'.active \in AccountIds
        /\ last'.active # last.active
        /\ last'.orig \in LoadStatements /\ ~BypassRequested(last'.orig))
       => (/\ ~last'.raised
           /\ \A u \in last'.rows.user :
                /\ users[u] = IdOf(last'.active)
                /\ \A a \in last'.coll[u].rows : a.account_id = IdOf(last'.active))]_vars

\* C3: with tenant t active when a query for User objects is intercepted, every
\* Address in a loaded addresses collection of a returned User has account_id
\* t.id, whether the collection was loaded by selectinload or lazily.
C3_CollectionsOnlyTenant ==
    (FilteredCase /\ last.active \in AccountIds)
        => \A u \in DOMAIN last.coll :
             last.coll[u].loaded
                => \A a \in last.coll[u].rows : a.account_id = IdOf(last.active)

\* C4: a statement the listener must filter, intercepted while the context
\* holder was never set, completes without raising, is left unmodified and
\* returns every stored row.
C4_UnsetTenantPassesThrough ==
    (FilteredCase /\ last.active = None)
        => (/\ ~last.raised
            /\ last.statement = last.orig
            /\ last.rows = AllRows(last.orig))

\* C5: a statement executed with include_all_accounts true gets no criteria and
\* returns the rows of every account, whatever the context holder holds, unset
\* included.
C5_BypassUnfiltered ==
    (last.executed /\ BypassRequested(last.orig))
        => (/\ ~last.raised
            /\ last.statement = last.orig
            /\ last.rows = AllRows(last.orig))

\* a bypassed query for users ran under acc1 and returned a user of acc2
C5_Witness ==
    /\ last.executed
    /\ BypassRequested(last.orig)
    /\ last.active = "acc1"
    /\ \E u \in last.rows.user : users[u] = "acc2"

\* C6: a Select whose FROM list is exactly the account Table is left unchanged
\* by the listener for every value of the context holder, and returns every
\* Account row.
C6_AccountSelectUnfiltered ==
    (last.executed /\ SingleAccountTableSelect(last.orig))
        => (/\ ~last.raised
            /\ last.statement = last.orig
            /\ last.account = "unread"
            /\ last.rows.account = AccountIds)

\* the account table was selected, without the bypass flag, under acc1
C6_Witness ==
    /\ last.executed
    /\ SingleAccountTableSelect(last.orig)
    /\ ~BypassRequested(last.orig)
    /\ last.active = "acc1"
    /\ last.rows.account = AccountIds

\* C7: the context holder is one overwritten slot: it always holds the
\* argument of the most recent set_current_account (None before any), and an
\* execution that reads it gets that value and leaves the slot as it was.
C7_SingleSlot ==
    /\ [](current_account = lastSet)
    /\ [][last' # last =>
            /\ current_account' = current_account
            /\ last'.account \in {"unread", lastSet}]_vars

\* a query read acc1 from the holder and a later set replaced it by acc2
C7_Witness ==
    /\ last.executed
    /\ last.account = "acc1"
    /\ current_account = "acc2"
    /\ lastSet = "acc2"

\* C8: when resolving the current account issues a single-table select on
\* account through the session, the listener run for that select takes the
\* exemption and resolves nothing further: at most one interception is nested
\* in a top-level one.
C8_ResolutionNestsOnce ==
    /\ Len(stack) <= 2
    /\ Len(stack) = 2 =>
         /\ stack[1].pc = "attach"
         /\ stack[2].statement = AccountSelect
         /\ stack[2].pc \in {"guard", "done"}

\* the listener run for the nested account select has finished, exempted
C8_Witness ==
    /\ Len(stack) = 2
    /\ stack[2].pc = "done"
    /\ stack[2].statement = AccountSelect

\* C9: a query of a unit of work that ran its set_current_account and its
\* queries without overlapping another unit is filtered by the unit's own
\* tenant and returns only that tenant's users; overlapping units can reach a
\* query filtered by the other unit's tenant that returns the other tenant's
\* users.
C9_SerializedUnitsOwnTenant ==
    (qlog.executed /\ qlog.clean)
        => (/\ qlog.criteria = qlog.tenant
            /\ \A x \in qlog.rows : users[x] = qlog.tenant)

\* an overlapped unit got only the other tenant's users, and afterwards a
\* unit running alone got its own
C9_Witness ==
    /\ qlog.executed
    /\ qlog.clean
    /\ qlog.rows # {}
    /\ qlog.leaked

\* C10: the listener leaves a relationship load or column load as it is and
\* does not read the context holder for it, and every loaded addresses
\* collection was filtered by the tenant id captured for its parent query.
C10_LoadsInheritParentTenant ==
    /\ last.sub.kind # "none" =>
         /\ ~last.sub.changed
         /\ ~last.sub.raised
         /\ last.sub.account = "unread"
    /\ \A u \in DOMAIN last.coll :
         last.coll[u].loaded => last.coll[u].bound = last.statement.criteria

====
